---------------------------- MODULE Spec2Model ----------------------------
(***************************************************************************)
(* A model of the two components of src/modules/window/ppapi/Input.cpp:    *)
(*                                                                         *)
(*   - the Pepper input bridge (lines 12-212): ConvertEvent, the event     *)
(*     queue with its mutex and condition variable, and the persistent     *)
(*     key / mouse state;                                                  *)
(*   - the GLES2 shader program manager (lines 252-747): the texture-unit  *)
(*     allocator shared by all shaders, the per-shader caches and the      *)
(*     volatile load / unload cycle.                                       *)
(*                                                                         *)
(* The input bridge is concurrent: producer threads call EnqueueEvent, one *)
(* consumer thread calls DequeueEvent, DequeueAllEvents and WaitForEvent.  *)
(* Every thread has a program counter and each step of a function that    *)
(* another thread can observe is one action.  The shader manager is        *)
(* single-threaded: each public operation is one action.                   *)
(***************************************************************************)
EXTENDS Integers, Sequences, FiniteSets, TLC

VARIABLES
    \* ---- input bridge -------------------------------------------------
    pc,                 \* per thread: the statement it is about to execute
    ev,                 \* per producer: converted_event of its EnqueueEvent
    g_InputEventQueue,  \* the std::deque of converted events
    g_EventQueueMutex,  \* the thread holding the mutex, or NoThread
    g_QueueNonEmpty,    \* the threads blocked in pthread_cond_wait
    g_Keys,             \* bool g_Keys[KEY_CODE_MAX]
    g_MouseButton,      \* bool g_MouseButton[MOUSE_BUTTON_MAX]
    g_MouseX,
    g_MouseY,
    has_event,          \* DequeueEvent's local / return value
    out_event,          \* DequeueEvent's out parameter
    out_events,         \* DequeueAllEvents' out parameter
    enqLog,             \* every event pushed, in push order (history)
    deqLog,             \* every event returned to the consumer (history)
    \* ---- shader manager -----------------------------------------------
    live,               \* the Shader objects that exist
    loaded,             \* per shader: its last loadVolatile succeeded and no
                        \* unloadVolatile followed (history)
    program,            \* per shader: GLuint program
    glPrograms,         \* the program names that exist in the driver
    uniforms,           \* per shader: std::map name -> location
    textureUnitPool,    \* per shader: std::map name -> texture unit
    activeTextureUnits, \* per shader: std::vector<GLuint>, texture per unit
    textureCounters,    \* static std::vector<int>
    maxTextureUnits,    \* static size_t
    currentShader,      \* static Shader *
    defaultShader,      \* static Shader *
    defaultSources,     \* static ShaderSources, as the set of its stages
    givenSources,       \* per shader: the stages of the sources its
                        \* constructor was called with (history)
    numTextureUnits,    \* what the context answers to getNumTextureUnits()
    stageObjects,       \* compiled stage objects not flagged for deletion
    ret                 \* how the last send or lookup call ended (history)

inputVars == <<pc, ev, g_InputEventQueue, g_EventQueueMutex, g_QueueNonEmpty,
               g_Keys, g_MouseButton, g_MouseX, g_MouseY, has_event,
               out_event, out_events, enqLog, deqLog>>

shaderVars == <<live, loaded, program, glPrograms, uniforms, textureUnitPool,
                activeTextureUnits, textureCounters, maxTextureUnits,
                currentShader, defaultShader, defaultSources,
                givenSources, numTextureUnits, stageObjects, ret>>

vars == <<inputVars, shaderVars>>

----------------------------------------------------------------------------
(* Bounds of the model.                                                    *)

\* Total number of EnqueueEvent calls explored.
MaxEvents == 2

\* Size of the key table.  Stands for KEY_CODE_MAX of Input.h, scaled down.
KEY_CODE_MAX == 2

\* The largest answer of the rendering context to getNumTextureUnits();
\* the devices explored answer 1 .. NumTextureUnits.
NumTextureUnits == 3

\* sendTexture is explored while no usage counter exceeds this value.
MaxCounter == 2

\* Loads that leave a stage object behind are explored while no more than
\* this many are left.
MaxStageObjects == 1

----------------------------------------------------------------------------
(* enum MouseButton of Input.h, as IsMouseButtonPressed and g_MouseButton   *)
(* use it: MOUSE_NONE is the lowest value, MOUSE_BUTTON_MAX the table size. *)

MOUSE_NONE == 0
MOUSE_LEFT == 1
MOUSE_MIDDLE == 2
MOUSE_RIGHT == 3
MOUSE_BUTTON_MAX == 4

Producers == {"p1", "p2"}
Consumer == "c"
Threads == Producers \cup {Consumer}
NoThread == "none"

----------------------------------------------------------------------------
(* Host events.  A pp::InputEvent is modelled by the fields ConvertEvent    *)
(* reads: its type, and for the mouse the button and position, for the      *)
(* keyboard the key code.  tag is a history field (producer, call number)   *)
(* that tells two events with equal contents apart; no code reads it.       *)

PPMouseTypes == {"PP_INPUTEVENT_TYPE_MOUSEDOWN", "PP_INPUTEVENT_TYPE_MOUSEUP",
                 "PP_INPUTEVENT_TYPE_MOUSEMOVE", "PP_INPUTEVENT_TYPE_MOUSEENTER",
                 "PP_INPUTEVENT_TYPE_MOUSELEAVE"}
PPKeyTypes == {"PP_INPUTEVENT_TYPE_RAWKEYDOWN", "PP_INPUTEVENT_TYPE_KEYDOWN",
               "PP_INPUTEVENT_TYPE_KEYUP"}

HostMouse(t, b, x, y) ==
    [pptype |-> t, ppbutton |-> b, x |-> x, y |-> y, keycode |-> 0]
HostKey(t, code) ==
    [pptype |-> t, ppbutton |-> "PP_INPUTEVENT_MOUSEBUTTON_NONE",
     x |-> 0, y |-> 0, keycode |-> code]
HostOther(t) ==
    [pptype |-> t, ppbutton |-> "PP_INPUTEVENT_MOUSEBUTTON_NONE",
     x |-> 0, y |-> 0, keycode |-> 0]

\* The host events the model feeds to EnqueueEvent: key codes inside and
\* just outside the key table, a button the state table reports and the
\* "no button" value, two mouse positions, and the two event kinds that
\* leave the persistent state alone.
HostEvents ==
    {HostKey("PP_INPUTEVENT_TYPE_KEYDOWN", 0),
     HostKey("PP_INPUTEVENT_TYPE_KEYUP", 0),
     HostKey("PP_INPUTEVENT_TYPE_KEYDOWN", KEY_CODE_MAX)}
    \cup {HostMouse("PP_INPUTEVENT_TYPE_MOUSEDOWN", "PP_INPUTEVENT_MOUSEBUTTON_LEFT", 1, 2),
          HostMouse("PP_INPUTEVENT_TYPE_MOUSEUP", "PP_INPUTEVENT_MOUSEBUTTON_LEFT", 2, 1),
          HostMouse("PP_INPUTEVENT_TYPE_MOUSEDOWN", "PP_INPUTEVENT_MOUSEBUTTON_NONE", 2, 2)}

(* ConvertEvent: the first switch sets the variant and its sub-type, the    *)
(* second copies the variant's payload.  The variants share a union; the    *)
(* fields of the other variants are never read and are kept at 0 / NONE.    *)
ConvertType(t) ==
    IF t \in PPMouseTypes THEN "INPUT_MOUSE"
    ELSE IF t = "PP_INPUTEVENT_TYPE_WHEEL" THEN "INPUT_WHEEL"
    ELSE IF t \in PPKeyTypes THEN "INPUT_KEY"
    ELSE "INPUT_CHARACTER"

ConvertSubType(t) ==
    CASE t = "PP_INPUTEVENT_TYPE_MOUSEDOWN" -> "MOUSE_DOWN"
      [] t = "PP_INPUTEVENT_TYPE_MOUSEUP" -> "MOUSE_UP"
      [] t = "PP_INPUTEVENT_TYPE_MOUSEMOVE" -> "MOUSE_MOVE"
      [] t = "PP_INPUTEVENT_TYPE_MOUSEENTER" -> "MOUSE_ENTER"
      [] t = "PP_INPUTEVENT_TYPE_MOUSELEAVE" -> "MOUSE_LEAVE"
      [] t = "PP_INPUTEVENT_TYPE_RAWKEYDOWN" -> "RAW_KEY_DOWN"
      [] t = "PP_INPUTEVENT_TYPE_KEYDOWN" -> "KEY_DOWN"
      [] t = "PP_INPUTEVENT_TYPE_KEYUP" -> "KEY_UP"
      [] OTHER -> "NO_SUBTYPE"

ConvertButton(b) ==
    CASE b = "PP_INPUTEVENT_MOUSEBUTTON_NONE" -> MOUSE_NONE
      [] b = "PP_INPUTEVENT_MOUSEBUTTON_LEFT" -> MOUSE_LEFT
      [] b = "PP_INPUTEVENT_MOUSEBUTTON_MIDDLE" -> MOUSE_MIDDLE
      [] b = "PP_INPUTEVENT_MOUSEBUTTON_RIGHT" -> MOUSE_RIGHT

ConvertEvent(in, tag) ==
    LET type == ConvertType(in.pptype) IN
    [type   |-> type,
     sub    |-> ConvertSubType(in.pptype),
     button |-> IF type = "INPUT_MOUSE" THEN ConvertButton(in.ppbutton) ELSE MOUSE_NONE,
     x      |-> IF type = "INPUT_MOUSE" THEN in.x ELSE 0,
     y      |-> IF type = "INPUT_MOUSE" THEN in.y ELSE 0,
     code   |-> IF type = "INPUT_KEY" THEN in.keycode ELSE 0,
     tag    |-> tag]

NoEvent == ConvertEvent(HostOther("PP_INPUTEVENT_TYPE_CHAR"), <<NoThread, 0>>)

----------------------------------------------------------------------------
(* UpdateInputState, one operator per table it writes.                      *)

UpdateKeys(keys, e) ==
    IF e.type = "INPUT_KEY" /\ e.sub \in {"KEY_DOWN", "KEY_UP"} /\ e.code < KEY_CODE_MAX
    THEN [keys EXCEPT ![e.code] = (e.sub = "KEY_DOWN")]
    ELSE keys

UpdateMouseButton(buttons, e) ==
    IF e.type = "INPUT_MOUSE" /\ e.sub \in {"MOUSE_DOWN", "MOUSE_UP"}
    THEN [buttons EXCEPT ![e.button] = (e.sub = "MOUSE_DOWN")]
    ELSE buttons

(* The state queries.  Each yields the set of values the call can return:   *)
(* one value when the read is inside the table (or the range check returns  *)
(* early), any boolean when the index is outside the table.                 *)
ReadTable(table, i) ==
    IF i \in DOMAIN table THEN {table[i]} ELSE BOOLEAN

\* Variant: the lower range check off by one.
IsMouseButtonPressedOffByOne(button) ==
    IF button < MOUSE_NONE \/ button >= MOUSE_BUTTON_MAX
    THEN {FALSE}
    ELSE ReadTable(g_MouseButton, button)

IsMouseButtonPressed(button) ==
    IF button <= MOUSE_NONE \/ button >= MOUSE_BUTTON_MAX
    THEN {FALSE}
    ELSE ReadTable(g_MouseButton, button)

IsKeyPressed(code) ==
    IF code >= KEY_CODE_MAX THEN {FALSE} ELSE ReadTable(g_Keys, code)

GetMouseX == g_MouseX
GetMouseY == g_MouseY

----------------------------------------------------------------------------
(* The mutex and the condition variable.                                    *)

\* Variant: a lock that excludes nobody.
MutexAvailableNoExclusion(t) == TRUE

\* pthread_mutex_lock returns only when no thread holds the mutex.
MutexAvailable(t) == g_EventQueueMutex = NoThread

\* Variant: a signal that wakes nobody.
CondSignalDropped(waiting) == {waiting}

\* pthread_cond_signal: the wait sets it can leave behind.  It wakes one
\* of the blocked threads if there is one.
CondSignal(waiting) ==
    IF waiting = {} THEN {waiting} ELSE {waiting \ {t} : t \in waiting}

\* Variant: "if" in place of "while", the wait is not re-checked.
AfterCondWaitNoRecheck == "we_unlock"

\* WaitForEvent's loop: where the thread continues once pthread_cond_wait
\* has returned with the mutex held again (back to the loop condition).
AfterCondWait == "we_test"

\* Variant: push_front in place of push_back.
PushFront(q, e) == <<e>> \o q

\* std::deque push_back / front / pop_front.
PushBack(q, e) == Append(q, e)
Front(q) == Head(q)
PopFront(q) == Tail(q)

----------------------------------------------------------------------------
(* Initial state of the input bridge: the globals are zero-initialised,     *)
(* InitializeEventQueue has run, every thread is outside the bridge.        *)

InitInput ==
    /\ pc = [t \in Threads |-> "idle"]
    /\ ev = [p \in Producers |-> NoEvent]
    /\ g_InputEventQueue = << >>
    /\ g_EventQueueMutex = NoThread
    /\ g_QueueNonEmpty = {}
    /\ g_Keys = [k \in 0 .. KEY_CODE_MAX - 1 |-> FALSE]
    /\ g_MouseButton = [b \in 0 .. MOUSE_BUTTON_MAX - 1 |-> FALSE]
    /\ g_MouseX = 0
    /\ g_MouseY = 0
    /\ has_event = FALSE
    /\ out_event = NoEvent
    /\ out_events = << >>
    /\ enqLog = << >>
    /\ deqLog = << >>

stateVars == <<g_Keys, g_MouseButton, g_MouseX, g_MouseY>>
queueVars == <<g_InputEventQueue, g_EventQueueMutex, g_QueueNonEmpty>>
consumerVars == <<has_event, out_event, out_events, deqLog>>

Goto(t, label) == pc' = [pc EXCEPT ![t] = label]

\* History: the EnqueueEvent calls started so far, in all and by producer p
\* (those that have pushed their event plus those still inside the call).
FromProducer(p, e) == e.tag[1] = p
NumCallsOf(p) ==
    Len(SelectSeq(enqLog, LAMBDA e : FromProducer(p, e)))
    + (IF pc[p] \in {"enq_update", "enq_update_y", "enq_update_button", "enq_lock",
                     "enq_push"} THEN 1 ELSE 0)
NumCalls ==
    Len(enqLog)
    + Cardinality({p \in Producers :
                     pc[p] \in {"enq_update", "enq_update_y", "enq_update_button",
                                "enq_lock", "enq_push"}})

----------------------------------------------------------------------------
(* EnqueueEvent (lines 116-126), called by producer p.                      *)

\* Lines 117-118: the call starts and converts the host event.
EnqueueCall(p) ==
    /\ pc[p] = "idle"
    /\ NumCalls < MaxEvents
    /\ \E in \in HostEvents :
          ev' = [ev EXCEPT ![p] = ConvertEvent(in, <<p, NumCallsOf(p) + 1>>)]
    /\ Goto(p, "enq_update")
    /\ UNCHANGED <<stateVars, queueVars, consumerVars, enqLog>>
    /\ UNCHANGED shaderVars

\* Line 120, UpdateInputState: lines 186 (mouse) or 199-210 (key).  A mouse
\* event writes three globals one after the other; no lock is held, so each
\* write is a step other threads can interleave with.
EnqueueUpdate(p) ==
    /\ pc[p] = "enq_update"
    /\ IF ev[p].type = "INPUT_MOUSE"
       THEN /\ g_MouseX' = ev[p].x
            /\ Goto(p, "enq_update_y")
            /\ UNCHANGED <<g_Keys, g_MouseY, g_MouseButton>>
       ELSE /\ g_Keys' = UpdateKeys(g_Keys, ev[p])
            /\ Goto(p, "enq_lock")
            /\ UNCHANGED <<g_MouseX, g_MouseY, g_MouseButton>>
    /\ UNCHANGED <<ev, queueVars, consumerVars, enqLog>>
    /\ UNCHANGED shaderVars

\* Line 187.
EnqueueUpdateY(p) ==
    /\ pc[p] = "enq_update_y"
    /\ g_MouseY' = ev[p].y
    /\ Goto(p, "enq_update_button")
    /\ UNCHANGED <<ev, g_Keys, g_MouseX, g_MouseButton, queueVars, consumerVars, enqLog>>
    /\ UNCHANGED shaderVars

\* Lines 189-196.
EnqueueUpdateButton(p) ==
    /\ pc[p] = "enq_update_button"
    /\ g_MouseButton' = UpdateMouseButton(g_MouseButton, ev[p])
    /\ Goto(p, "enq_lock")
    /\ UNCHANGED <<ev, g_Keys, g_MouseX, g_MouseY, queueVars, consumerVars, enqLog>>
    /\ UNCHANGED shaderVars

\* Line 122.
EnqueueLock(p) ==
    /\ pc[p] = "enq_lock"
    /\ MutexAvailable(p)
    /\ g_EventQueueMutex' = p
    /\ Goto(p, "enq_push")
    /\ UNCHANGED <<ev, stateVars, g_InputEventQueue, g_QueueNonEmpty, consumerVars, enqLog>>
    /\ UNCHANGED shaderVars

\* Line 123.
EnqueuePush(p) ==
    /\ pc[p] = "enq_push"
    /\ g_InputEventQueue' = PushBack(g_InputEventQueue, ev[p])
    /\ enqLog' = Append(enqLog, ev[p])
    /\ Goto(p, "enq_signal")
    /\ UNCHANGED <<ev, stateVars, g_EventQueueMutex, g_QueueNonEmpty, consumerVars>>
    /\ UNCHANGED shaderVars

\* Line 124.
EnqueueSignal(p) ==
    /\ pc[p] = "enq_signal"
    /\ g_QueueNonEmpty' \in CondSignal(g_QueueNonEmpty)
    /\ Goto(p, "enq_unlock")
    /\ UNCHANGED <<ev, stateVars, g_InputEventQueue, g_EventQueueMutex, consumerVars, enqLog>>
    /\ UNCHANGED shaderVars

\* Lines 125-126: unlock and return.
EnqueueUnlock(p) ==
    /\ pc[p] = "enq_unlock"
    /\ g_EventQueueMutex' = NoThread
    /\ Goto(p, "idle")
    /\ UNCHANGED <<ev, stateVars, g_InputEventQueue, g_QueueNonEmpty, consumerVars, enqLog>>
    /\ UNCHANGED shaderVars

----------------------------------------------------------------------------
(* DequeueEvent (lines 128-138), called by the consumer.                    *)

\* Lines 129-130.
DequeueLock ==
    /\ pc[Consumer] = "idle"
    /\ MutexAvailable(Consumer)
    /\ g_EventQueueMutex' = Consumer
    /\ has_event' = FALSE
    /\ Goto(Consumer, "de_body")
    /\ UNCHANGED <<ev, stateVars, g_InputEventQueue, g_QueueNonEmpty, out_event,
                   out_events, deqLog, enqLog>>
    /\ UNCHANGED shaderVars

\* Lines 131-135.
DequeueBody ==
    /\ pc[Consumer] = "de_body"
    /\ IF g_InputEventQueue # << >>
       THEN /\ out_event' = Front(g_InputEventQueue)
            /\ g_InputEventQueue' = PopFront(g_InputEventQueue)
            /\ has_event' = TRUE
       ELSE UNCHANGED <<out_event, g_InputEventQueue, has_event>>
    /\ Goto(Consumer, "de_unlock")
    /\ UNCHANGED <<ev, stateVars, g_EventQueueMutex, g_QueueNonEmpty, out_events,
                   deqLog, enqLog>>
    /\ UNCHANGED shaderVars

\* Lines 136-137: unlock and return has_event.
DequeueUnlock ==
    /\ pc[Consumer] = "de_unlock"
    /\ g_EventQueueMutex' = NoThread
    /\ deqLog' = IF has_event THEN Append(deqLog, out_event) ELSE deqLog
    /\ Goto(Consumer, "idle")
    /\ UNCHANGED <<ev, stateVars, g_InputEventQueue, g_QueueNonEmpty, has_event,
                   out_event, out_events, enqLog>>
    /\ UNCHANGED shaderVars

----------------------------------------------------------------------------
(* DequeueAllEvents (lines 140-147), called by the consumer.                *)

\* Line 141.
DequeueAllLock ==
    /\ pc[Consumer] = "idle"
    /\ MutexAvailable(Consumer)
    /\ g_EventQueueMutex' = Consumer
    /\ Goto(Consumer, "da_copy")
    /\ UNCHANGED <<ev, stateVars, g_InputEventQueue, g_QueueNonEmpty, consumerVars, enqLog>>
    /\ UNCHANGED shaderVars

\* Lines 142-144: resize the output to the queue's size and copy.
DequeueAllCopy ==
    /\ pc[Consumer] = "da_copy"
    /\ out_events' = g_InputEventQueue
    /\ Goto(Consumer, "da_clear")
    /\ UNCHANGED <<ev, stateVars, queueVars, has_event, out_event, deqLog, enqLog>>
    /\ UNCHANGED shaderVars

\* Line 145.
DequeueAllClear ==
    /\ pc[Consumer] = "da_clear"
    /\ g_InputEventQueue' = << >>
    /\ Goto(Consumer, "da_unlock")
    /\ UNCHANGED <<ev, stateVars, g_EventQueueMutex, g_QueueNonEmpty, consumerVars, enqLog>>
    /\ UNCHANGED shaderVars

\* Lines 146-147: unlock and return.
DequeueAllUnlock ==
    /\ pc[Consumer] = "da_unlock"
    /\ g_EventQueueMutex' = NoThread
    /\ deqLog' = deqLog \o out_events
    /\ Goto(Consumer, "idle")
    /\ UNCHANGED <<ev, stateVars, g_InputEventQueue, g_QueueNonEmpty, has_event,
                   out_event, out_events, enqLog>>
    /\ UNCHANGED shaderVars

----------------------------------------------------------------------------
(* WaitForEvent (lines 149-155), called by the consumer.                    *)

\* Line 150.
WaitLock ==
    /\ pc[Consumer] = "idle"
    /\ MutexAvailable(Consumer)
    /\ g_EventQueueMutex' = Consumer
    /\ Goto(Consumer, "we_test")
    /\ UNCHANGED <<ev, stateVars, g_InputEventQueue, g_QueueNonEmpty, consumerVars, enqLog>>
    /\ UNCHANGED shaderVars

\* Lines 151-152: the loop condition; pthread_cond_wait releases the mutex
\* and blocks the thread in one atomic step.
WaitTest ==
    /\ pc[Consumer] = "we_test"
    /\ IF g_InputEventQueue = << >>
       THEN /\ g_EventQueueMutex' = NoThread
            /\ g_QueueNonEmpty' = g_QueueNonEmpty \cup {Consumer}
            /\ Goto(Consumer, "we_wait")
       ELSE /\ Goto(Consumer, "we_unlock")
            /\ UNCHANGED <<g_EventQueueMutex, g_QueueNonEmpty>>
    /\ UNCHANGED <<ev, stateVars, g_InputEventQueue, consumerVars, enqLog>>
    /\ UNCHANGED shaderVars

\* pthread_cond_wait may wake up without a signal.
WaitSpuriousWake ==
    /\ pc[Consumer] = "we_wait"
    /\ Consumer \in g_QueueNonEmpty
    /\ g_QueueNonEmpty' = g_QueueNonEmpty \ {Consumer}
    /\ UNCHANGED <<pc, ev, stateVars, g_InputEventQueue, g_EventQueueMutex,
                   consumerVars, enqLog>>
    /\ UNCHANGED shaderVars

\* pthread_cond_wait returns: the woken thread re-acquires the mutex.
WaitReacquire ==
    /\ pc[Consumer] = "we_wait"
    /\ Consumer \notin g_QueueNonEmpty
    /\ MutexAvailable(Consumer)
    /\ g_EventQueueMutex' = Consumer
    /\ Goto(Consumer, AfterCondWait)
    /\ UNCHANGED <<ev, stateVars, g_InputEventQueue, g_QueueNonEmpty, consumerVars, enqLog>>
    /\ UNCHANGED shaderVars

\* Lines 154-155: unlock and return.
WaitUnlock ==
    /\ pc[Consumer] = "we_unlock"
    /\ g_EventQueueMutex' = NoThread
    /\ Goto(Consumer, "idle")
    /\ UNCHANGED <<ev, stateVars, g_InputEventQueue, g_QueueNonEmpty, consumerVars, enqLog>>
    /\ UNCHANGED shaderVars

----------------------------------------------------------------------------
(* The shader program manager.                                              *)

Shaders == {"s1", "s2"}
NULL == "NULL"

\* Uniform names a script sends to: two sampler uniforms every linked
\* program declares and uses, and one name no program knows.
SamplerNames == {"a", "b"}
UnknownNames == {"u"}
Names == SamplerNames \cup UnknownNames

\* Texture names passed to sendTexture: 0 and a generated texture.
Textures == {0, 7}

Stages == {"TYPE_VERTEX", "TYPE_PIXEL"}

\* What the driver does with a compile-and-link request: all is well, the
\* first stage compiled does not compile, the program does not link.
LoadOutcomes == {"ok", "compile_fail", "link_fail"}

\* The same, and: the first stage compiles and the second does not.
AllLoadOutcomes == LoadOutcomes \cup {"compile_fail_later"}

Zeros(n) == [i \in 1 .. n |-> 0]
EmptyMap == [n \in {} |-> 0]
Max(a, b) == IF a >= b THEN a ELSE b
Min(S) == CHOOSE x \in S : \A y \in S : x <= y

\* How a sendFloat, sendMatrix or hasUniform call ended: the operation,
\* the exception it threw ("none", "uniform": cannot get location, "size":
\* invalid variable or matrix size), the value it returned (hasUniform)
\* and the driver uniform write it issued.
Call(op, error, value, glcall) ==
    [op |-> op, error |-> error, value |-> value, glcall |-> glcall]
NoCall == Call("none", "none", FALSE, "none")

\* The fields of a Shader object that does not exist; no call made yet.
InitShader ==
    /\ live = {}
    /\ loaded = [s \in Shaders |-> FALSE]
    /\ program = [s \in Shaders |-> 0]
    /\ glPrograms = {}
    /\ uniforms = [s \in Shaders |-> EmptyMap]
    /\ textureUnitPool = [s \in Shaders |-> EmptyMap]
    /\ activeTextureUnits = [s \in Shaders |-> << >>]
    /\ textureCounters = << >>
    /\ maxTextureUnits = 0
    /\ currentShader = NULL
    /\ defaultShader = NULL
    /\ defaultSources = {}
    /\ givenSources = [s \in Shaders |-> {}]
    /\ numTextureUnits \in 1 .. NumTextureUnits
    /\ stageObjects = 0
    /\ ret = NoCall

\* glCreateProgram: a name not in use (the driver hands out the lowest).
NewProgram == Min({h \in 1 .. Cardinality(Shaders) + 1 : h \notin glPrograms})

\* glGetUniformLocation(program, name): -1 unless program is a linked
\* program that has the uniform.
DriverLocation(s, name) ==
    IF program[s] \in glPrograms /\ name \in SamplerNames
    THEN (IF name = "a" THEN 0 ELSE 1)
    ELSE -1

(* getUniformLocation (lines 556-571): the location, whether it throws, and *)
(* the cache afterwards.                                                    *)
getUniformLocation(s, name, unsafe) ==
    IF name \in DOMAIN uniforms[s] /\ (uniforms[s][name] # -1 \/ unsafe)
    THEN [location |-> uniforms[s][name], throws |-> FALSE, cache |-> uniforms[s]]
    ELSE LET location == DriverLocation(s, name) IN
         IF location = -1 /\ ~unsafe
         THEN [location |-> location, throws |-> TRUE, cache |-> uniforms[s]]
         ELSE [location |-> location, throws |-> FALSE,
               cache |-> [n \in DOMAIN uniforms[s] \cup {name} |->
                            IF n = name THEN location ELSE uniforms[s][n]]]

\* Variant: the global usage counters are not consulted.
OwnListTextureUnit(counters, active, pool, name) ==
    IF name \in DOMAIN pool THEN pool[name]
    ELSE IF \E i \in 1 .. Len(active) : active[i] = 0
    THEN Min({i \in 1 .. Len(active) : active[i] = 0})
    ELSE 0

\* Shader::hasUniform (lines 697-700): the value returned and the cache
\* afterwards.
hasUniform(s, name) ==
    LET loc == getUniformLocation(s, name, TRUE) IN
    [value |-> loc.location >= 0, cache |-> loc.cache]

\* The switch of sendFloat (lines 581-596): case 1 and default share a
\* branch.
FloatCall(size) ==
    CASE size = 4 -> "glUniform4fv"
      [] size = 3 -> "glUniform3fv"
      [] size = 2 -> "glUniform2fv"
      [] OTHER -> "glUniform1fv"

\* The switch of sendMatrix (lines 613-625): case 2 and default share a
\* branch.
MatrixCall(size) ==
    CASE size = 4 -> "glUniformMatrix4fv"
      [] size = 3 -> "glUniformMatrix3fv"
      [] OTHER -> "glUniformMatrix2fv"

\* Variant: the upper size check of sendFloat let one size too many through.
sendFloatSizeOffByOne(s, name, size) ==
    LET loc == getUniformLocation(s, name, FALSE) IN
    IF loc.throws
    THEN [error |-> "uniform", glcall |-> "none", cache |-> loc.cache]
    ELSE IF size < 1 \/ size > 5
    THEN [error |-> "size", glcall |-> "none", cache |-> loc.cache]
    ELSE [error |-> "none", glcall |-> FloatCall(size), cache |-> loc.cache]

\* Shader::sendFloat (lines 573-600) after the TemporaryAttacher: the
\* exception, the driver call issued and the location cache afterwards.
sendFloat(s, name, size) ==
    LET loc == getUniformLocation(s, name, FALSE) IN
    IF loc.throws
    THEN [error |-> "uniform", glcall |-> "none", cache |-> loc.cache]
    ELSE IF size < 1 \/ size > 4
    THEN [error |-> "size", glcall |-> "none", cache |-> loc.cache]
    ELSE [error |-> "none", glcall |-> FloatCall(size), cache |-> loc.cache]

\* Shader::sendMatrix (lines 602-629) after the TemporaryAttacher.
sendMatrix(s, name, size) ==
    LET loc == getUniformLocation(s, name, FALSE) IN
    IF loc.throws
    THEN [error |-> "uniform", glcall |-> "none", cache |-> loc.cache]
    ELSE IF size < 2 \/ size > 4
    THEN [error |-> "size", glcall |-> "none", cache |-> loc.cache]
    ELSE [error |-> "none", glcall |-> MatrixCall(size), cache |-> loc.cache]

\* Variant: the scan for an unused unit yields the last one, not the first.
LastFreeTextureUnit(counters, active, pool, name) ==
    IF name \in DOMAIN pool THEN pool[name]
    ELSE IF \E i \in 1 .. Len(counters) : counters[i] = 0
    THEN CHOOSE i \in 1 .. Len(counters) :
            counters[i] = 0 /\ \A j \in 1 .. Len(counters) : counters[j] = 0 => j <= i
    ELSE IF \E i \in 1 .. Len(active) : active[i] = 0
    THEN Min({i \in 1 .. Len(active) : active[i] = 0})
    ELSE 0

(* getTextureUnit (lines 668-695) on the global counters and a shader's own *)
(* list and pool: the unit it returns, 0 when it throws "No more texture    *)
(* units available".  std::find yields the first, so lowest, index.         *)
getTextureUnit(counters, active, pool, name) ==
    IF name \in DOMAIN pool THEN pool[name]
    ELSE IF \E i \in 1 .. Len(counters) : counters[i] = 0
    THEN Min({i \in 1 .. Len(counters) : counters[i] = 0})
    ELSE IF \E i \in 1 .. Len(active) : active[i] = 0
    THEN Min({i \in 1 .. Len(active) : active[i] = 0})
    ELSE 0

\* sendTexture lines 651-652: count the unit unless this shader's list
\* already has a texture on it.
CountUnit(counters, active, unit) ==
    IF active[unit] = 0
    THEN [counters EXCEPT ![unit] = counters[unit] + 1]
    ELSE counters

\* Variant: the units are released without the floor at zero and whether
\* or not the shader had a texture on them.
ReleaseAllUnits(counters, active) ==
    [i \in 1 .. Len(counters) |->
        IF i <= Len(active) THEN counters[i] - 1 ELSE counters[i]]

\* unloadVolatile lines 494-498.
ReleaseUnits(counters, active) ==
    [i \in 1 .. Len(counters) |->
        IF i <= Len(active) /\ active[i] > 0
        THEN Max(counters[i] - 1, 0)
        ELSE counters[i]]

\* Variant: the pool is cleared with the other per-load state.
PoolAfterUnloadCleared(pool) == EmptyMap

\* unloadVolatile leaves textureUnitPool alone.
PoolAfterUnload(pool) == pool

\* Shader::detach (lines 545-554): the current shader afterwards.
DetachResult == IF defaultShader # NULL THEN defaultShader ELSE NULL

\* Variant: the attacher detaches whatever was current before.
RestoreAlwaysDetach(prev) == DetachResult

\* ~TemporaryAttacher (lines 265-271): the current shader afterwards.
RestoreResult(prev) == IF prev # NULL THEN prev ELSE DetachResult

\* textureCounters after the constructor's lines 293-297.
ResizedCounters(n) ==
    IF Len(textureCounters) < n
    THEN [i \in 1 .. n |-> IF i <= Len(textureCounters) THEN textureCounters[i] ELSE 0]
    ELSE textureCounters

shaderObjectVars == <<loaded, program, uniforms, textureUnitPool, activeTextureUnits>>

----------------------------------------------------------------------------
(* Shader::setDefaultSources (lines 716-725).                               *)
SetDefaultSources(sources) ==
    /\ IF "TYPE_VERTEX" \notin sources \/ "TYPE_PIXEL" \notin sources
       THEN UNCHANGED defaultSources
       ELSE defaultSources' = sources
    /\ UNCHANGED <<live, shaderObjectVars, glPrograms, textureCounters,
                   maxTextureUnits, currentShader, defaultShader>>
    /\ UNCHANGED <<inputVars, givenSources, numTextureUnits, stageObjects, ret>>

(* The owner of the shaders (the graphics module) makes an existing shader  *)
(* the default shader, or none.                                             *)
SetDefaultShader(s) ==
    /\ s \in live \cup {NULL}
    /\ defaultShader' = s
    /\ UNCHANGED <<live, shaderObjectVars, glPrograms, textureCounters,
                   maxTextureUnits, currentShader, defaultSources>>
    /\ UNCHANGED <<inputVars, givenSources, numTextureUnits, stageObjects, ret>>

\* Variant: a missing stage is accepted without a default.
checkCodeCompletenessSkipped(sources) == TRUE

\* checkCodeCompleteness (lines 319-341): every stage is in the sources or
\* in the default sources (FALSE when it throws).
checkCodeCompleteness(sources) ==
    \A st \in Stages : st \in sources \cup defaultSources

\* The loop of loadVolatile (lines 462-467) with compileCode: the stage
\* objects not flagged for deletion afterwards.  compileCode deletes the
\* object that does not compile; createProgram flags both after linking;
\* the object of a stage compiled before one that fails is dropped with
\* the local shaderids.
StagesLeft(outcome) ==
    IF outcome = "compile_fail_later" THEN stageObjects + 1 ELSE stageObjects

(* Shader::Shader (lines 286-309) for an object s that does not exist yet,  *)
(* with the driver's answer to the compile and link in loadVolatile.        *)
Construct(s, sources, outcome) ==
    /\ s \notin live
    /\ IF sources = {}
       THEN \* line 291
            UNCHANGED shaderVars
       ELSE LET n == Max(numTextureUnits - 1, 0)
                complete == checkCodeCompleteness(sources)
                h == NewProgram
            IN
            /\ maxTextureUnits' = n
            /\ textureCounters' = ResizedCounters(n)
            /\ IF complete /\ outcome = "ok"
               THEN /\ live' = live \cup {s}
                    /\ loaded' = [loaded EXCEPT ![s] = TRUE]
                    /\ program' = [program EXCEPT ![s] = h]
                    /\ glPrograms' = glPrograms \cup {h}
                    /\ activeTextureUnits' = [activeTextureUnits EXCEPT ![s] = Zeros(n)]
                    /\ givenSources' = [givenSources EXCEPT ![s] = sources]
                    /\ UNCHANGED <<uniforms, textureUnitPool>>
               ELSE \* checkCodeCompleteness or loadVolatile throws: no object
                    UNCHANGED <<live, shaderObjectVars, glPrograms, givenSources>>
            /\ stageObjects' = IF complete THEN StagesLeft(outcome) ELSE stageObjects
            /\ stageObjects' <= MaxStageObjects
            /\ UNCHANGED <<currentShader, defaultShader, defaultSources>>
    /\ UNCHANGED <<inputVars, numTextureUnits, ret>>

(* Shader::unloadVolatile (lines 483-506).                                  *)
UnloadVolatile(s) ==
    /\ s \in live
    /\ glPrograms' = IF program[s] # 0 THEN glPrograms \ {program[s]} ELSE glPrograms
    /\ program' = [program EXCEPT ![s] = 0]
    /\ textureCounters' = ReleaseUnits(textureCounters, activeTextureUnits[s])
    /\ activeTextureUnits' = [activeTextureUnits EXCEPT ![s] = Zeros(maxTextureUnits)]
    /\ uniforms' = [uniforms EXCEPT ![s] = EmptyMap]
    /\ textureUnitPool' = [textureUnitPool EXCEPT ![s] = PoolAfterUnload(@)]
    /\ loaded' = [loaded EXCEPT ![s] = FALSE]
    /\ UNCHANGED <<live, maxTextureUnits, currentShader, defaultShader, defaultSources>>
    /\ UNCHANGED <<inputVars, givenSources, numTextureUnits, stageObjects, ret>>

(* Shader::loadVolatile (lines 454-481) on an existing shader after an      *)
(* unloadVolatile: the reload when the context is back.                     *)
LoadVolatile(s, outcome) ==
    /\ s \in live
    /\ ~loaded[s]
    /\ activeTextureUnits' = [activeTextureUnits EXCEPT ![s] = Zeros(maxTextureUnits)]
    /\ stageObjects' = StagesLeft(outcome)
    /\ stageObjects' <= MaxStageObjects
    /\ CASE outcome \in {"compile_fail", "compile_fail_later"} ->
              UNCHANGED <<program, glPrograms, loaded>>
         [] outcome = "link_fail" ->
              \* createProgram deletes the program and leaves its name in place
              /\ program' = [program EXCEPT ![s] = NewProgram]
              /\ UNCHANGED <<glPrograms, loaded>>
         [] outcome = "ok" ->
              /\ program' = [program EXCEPT ![s] = NewProgram]
              /\ glPrograms' = glPrograms \cup {NewProgram}
              /\ loaded' = [loaded EXCEPT ![s] = TRUE]
    /\ UNCHANGED <<live, uniforms, textureUnitPool, textureCounters, maxTextureUnits,
                   currentShader, defaultShader, defaultSources>>
    /\ UNCHANGED <<inputVars, givenSources, numTextureUnits, ret>>

(* Shader::~Shader (lines 311-317): detach if current, unloadVolatile, and  *)
(* the object is gone.                                                      *)
Destroy(s) ==
    /\ s \in live
    /\ currentShader' = IF currentShader = s THEN DetachResult ELSE currentShader
    /\ glPrograms' = IF program[s] # 0 THEN glPrograms \ {program[s]} ELSE glPrograms
    /\ textureCounters' = ReleaseUnits(textureCounters, activeTextureUnits[s])
    /\ live' = live \ {s}
    /\ program' = [program EXCEPT ![s] = 0]
    /\ loaded' = [loaded EXCEPT ![s] = FALSE]
    /\ uniforms' = [uniforms EXCEPT ![s] = EmptyMap]
    /\ textureUnitPool' = [textureUnitPool EXCEPT ![s] = EmptyMap]
    /\ activeTextureUnits' = [activeTextureUnits EXCEPT ![s] = << >>]
    /\ UNCHANGED <<maxTextureUnits, defaultShader, defaultSources>>
    /\ givenSources' = [givenSources EXCEPT ![s] = {}]
    /\ UNCHANGED <<inputVars, numTextureUnits, stageObjects, ret>>

(* Shader::attach(false) (lines 523-543), called by the renderer.           *)
Attach(s) ==
    /\ s \in live
    /\ currentShader' = s
    /\ UNCHANGED <<live, shaderObjectVars, glPrograms, textureCounters,
                   maxTextureUnits, defaultShader, defaultSources>>
    /\ UNCHANGED <<inputVars, givenSources, numTextureUnits, stageObjects, ret>>

(* Shader::detach (lines 545-554), called by the renderer.                  *)
Detach ==
    /\ currentShader' = DetachResult
    /\ UNCHANGED <<live, shaderObjectVars, glPrograms, textureCounters,
                   maxTextureUnits, defaultShader, defaultSources>>
    /\ UNCHANGED <<inputVars, givenSources, numTextureUnits, stageObjects, ret>>

(* Shader::sendTexture (lines 631-656), also reached through sendImage and  *)
(* sendCanvas.  The TemporaryAttacher makes s current for the call and      *)
(* restores on every way out.                                               *)
SendTexture(s, name, texture) ==
    /\ s \in live
    /\ LET prev == currentShader
           loc == getUniformLocation(s, name, FALSE)
           unit == getTextureUnit(textureCounters, activeTextureUnits[s],
                                  textureUnitPool[s], name)
       IN
       /\ currentShader' = RestoreResult(prev)
       /\ IF loc.throws
          THEN UNCHANGED <<uniforms, textureUnitPool, textureCounters,
                           activeTextureUnits>>
          ELSE /\ uniforms' = [uniforms EXCEPT ![s] = loc.cache]
               /\ IF unit = 0
                  THEN UNCHANGED <<textureUnitPool, textureCounters, activeTextureUnits>>
                  ELSE /\ CountUnit(textureCounters, activeTextureUnits[s], unit)[unit]
                            <= MaxCounter
                       /\ textureUnitPool' =
                            [textureUnitPool EXCEPT ![s] =
                               [n \in DOMAIN @ \cup {name} |->
                                  IF n = name THEN unit ELSE @[n]]]
                       /\ textureCounters' =
                            CountUnit(textureCounters, activeTextureUnits[s], unit)
                       /\ activeTextureUnits' =
                            [activeTextureUnits EXCEPT ![s][unit] = texture]
    /\ UNCHANGED <<live, loaded, program, glPrograms, maxTextureUnits, defaultShader,
                   defaultSources>>
    /\ UNCHANGED <<inputVars, givenSources, numTextureUnits, stageObjects, ret>>

(* Shader::sendFloat (lines 573-600).  The TemporaryAttacher makes s       *)
(* current for the call and restores on every way out.                      *)
SendFloat(s, name, size) ==
    /\ s \in live
    /\ LET r == sendFloat(s, name, size) IN
       /\ currentShader' = RestoreResult(currentShader)
       /\ uniforms' = [uniforms EXCEPT ![s] = r.cache]
       /\ ret' = Call("sendFloat", r.error, FALSE, r.glcall)
    /\ UNCHANGED <<live, loaded, program, glPrograms, textureUnitPool,
                   activeTextureUnits, textureCounters, maxTextureUnits,
                   defaultShader, defaultSources>>
    /\ UNCHANGED <<inputVars, givenSources, numTextureUnits, stageObjects>>

(* Shader::sendMatrix (lines 602-629).                                      *)
SendMatrix(s, name, size) ==
    /\ s \in live
    /\ LET r == sendMatrix(s, name, size) IN
       /\ currentShader' = RestoreResult(currentShader)
       /\ uniforms' = [uniforms EXCEPT ![s] = r.cache]
       /\ ret' = Call("sendMatrix", r.error, FALSE, r.glcall)
    /\ UNCHANGED <<live, loaded, program, glPrograms, textureUnitPool,
                   activeTextureUnits, textureCounters, maxTextureUnits,
                   defaultShader, defaultSources>>
    /\ UNCHANGED <<inputVars, givenSources, numTextureUnits, stageObjects>>

(* Shader::hasUniform (lines 697-700).                                      *)
HasUniform(s, name) ==
    /\ s \in live
    /\ LET r == hasUniform(s, name) IN
       /\ uniforms' = [uniforms EXCEPT ![s] = r.cache]
       /\ ret' = Call("hasUniform", "none", r.value, "none")
    /\ UNCHANGED <<live, loaded, program, glPrograms, textureUnitPool,
                   activeTextureUnits, textureCounters, maxTextureUnits,
                   currentShader, defaultShader, defaultSources>>
    /\ UNCHANGED <<inputVars, givenSources, numTextureUnits, stageObjects>>

\* The operations on shaders, in an environment that leaves the default
\* sources and the default shader as they are.
NextShader ==
    \/ \E s \in Shaders, src \in SUBSET Stages, o \in LoadOutcomes : Construct(s, src, o)
    \/ \E s \in Shaders : UnloadVolatile(s)
    \/ \E s \in Shaders, o \in LoadOutcomes : LoadVolatile(s, o)
    \/ \E s \in Shaders : Destroy(s)
    \/ \E s \in Shaders : Attach(s)
    \/ Detach
    \/ \E s \in Shaders, n \in Names, t \in Textures : SendTexture(s, n, t)

----------------------------------------------------------------------------

ProducerStep(p) ==
    \/ EnqueueUpdate(p)
    \/ EnqueueUpdateY(p)
    \/ EnqueueUpdateButton(p)
    \/ EnqueueLock(p)
    \/ EnqueuePush(p)
    \/ EnqueueSignal(p)
    \/ EnqueueUnlock(p)

ConsumerStep ==
    \/ DequeueBody
    \/ DequeueUnlock
    \/ DequeueAllCopy
    \/ DequeueAllClear
    \/ DequeueAllUnlock
    \/ WaitTest
    \/ WaitReacquire
    \/ WaitUnlock

ConsumerCall ==
    \/ DequeueLock
    \/ DequeueAllLock
    \/ WaitLock

NextInput ==
    \/ \E p \in Producers : EnqueueCall(p)
    \/ \E p \in Producers : ProducerStep(p)
    \/ ConsumerCall
    \/ ConsumerStep
    \/ WaitSpuriousWake

Init == InitInput /\ InitShader

\* The input bridge; the shader manager stays in its initial state.
SpecInput == Init /\ [][NextInput]_vars

\* The shader manager; the input bridge stays in its initial state.
SpecShader == Init /\ [][NextShader]_vars

\* The shader manager when the scripts send generated textures only (no
\* texture name 0).
NextShaderNonZero ==
    \/ \E s \in Shaders, src \in SUBSET Stages, o \in LoadOutcomes : Construct(s, src, o)
    \/ \E s \in Shaders : UnloadVolatile(s)
    \/ \E s \in Shaders, o \in LoadOutcomes : LoadVolatile(s, o)
    \/ \E s \in Shaders : Destroy(s)
    \/ \E s \in Shaders : Attach(s)
    \/ Detach
    \/ \E s \in Shaders, n \in Names, t \in Textures \ {0} : SendTexture(s, n, t)

SpecShaderNonZero == Init /\ [][NextShaderNonZero]_vars

\* The sends and the current shader: shaders come and go, the renderer
\* attaches and detaches, the graphics module names the default shader, and
\* the scripts send to a sampler and to a name no program has, with a valid
\* and an invalid size.
NextAttach ==
    \/ \E s \in Shaders, o \in LoadOutcomes : Construct(s, Stages, o)
    \/ \E s \in Shaders : Destroy(s)
    \/ \E s \in Shaders : Attach(s)
    \/ Detach
    \/ \E s \in Shaders \cup {NULL} : SetDefaultShader(s)
    \/ \E s \in Shaders, n \in {"a", "u"}, size \in {0, 1} : SendFloat(s, n, size)
    \/ \E s \in Shaders, n \in {"a", "u"}, size \in {1, 2} : SendMatrix(s, n, size)
    \/ \E s \in Shaders, n \in {"a", "u"} : SendTexture(s, n, 7)

SpecAttach == Init /\ [][NextAttach]_vars

\* The shader manager in an environment that also registers default
\* sources and a default shader.
NextShaderDefaults ==
    \/ NextShader
    \/ \E src \in SUBSET Stages : SetDefaultSources(src)
    \/ \E s \in Shaders \cup {NULL} : SetDefaultShader(s)

SpecShaderDefaults == Init /\ [][NextShaderDefaults]_vars

\* Sizes passed to sendFloat and sendMatrix: the valid ones and one on
\* either side of them.
Sizes == 0 .. 5

\* Names passed to sendFloat, sendMatrix and hasUniform: a uniform of the
\* programs and a name no program knows.
UniformNames == {"a", "u"}

\* Uniforms on their own: shaders that are built, unloaded, reloaded and
\* destroyed, and asked for and sent uniforms of every size.
NextUniform ==
    \/ \E s \in Shaders, o \in LoadOutcomes : Construct(s, Stages, o)
    \/ \E s \in Shaders : UnloadVolatile(s)
    \/ \E s \in Shaders, o \in LoadOutcomes : LoadVolatile(s, o)
    \/ \E s \in Shaders : Destroy(s)
    \/ \E s \in Shaders, n \in UniformNames, size \in Sizes : SendFloat(s, n, size)
    \/ \E s \in Shaders, n \in UniformNames, size \in Sizes : SendMatrix(s, n, size)
    \/ \E s \in Shaders, n \in UniformNames : HasUniform(s, n)

SpecUniform == Init /\ [][NextUniform]_vars

\* Compiling and linking on their own: shaders built from every map of
\* sources, with every answer of the driver, while default sources are
\* registered; no uniform is sent.
NextLoad ==
    \/ \E src \in SUBSET Stages : SetDefaultSources(src)
    \/ \E s \in Shaders, src \in SUBSET Stages, o \in AllLoadOutcomes :
          Construct(s, src, o)
    \/ \E s \in Shaders : UnloadVolatile(s)
    \/ \E s \in Shaders, o \in AllLoadOutcomes : LoadVolatile(s, o)
    \/ \E s \in Shaders : Destroy(s)
    \/ \E s \in Shaders : Attach(s)
    \/ Detach

SpecLoad == Init /\ [][NextLoad]_vars

\* The liveness specification: a thread inside a call keeps running (weak
\* fairness of its steps), and a thread waiting for the mutex gets it if
\* the mutex is free again and again (strong fairness of the lock steps).
\* Starting a call and waking up spuriously are never forced.
FairnessInput ==
    /\ \A p \in Producers :
          /\ WF_vars(EnqueueUpdate(p) \/ EnqueueUpdateY(p) \/ EnqueueUpdateButton(p)
                     \/ EnqueuePush(p) \/ EnqueueSignal(p) \/ EnqueueUnlock(p))
          /\ SF_vars(EnqueueLock(p))
    /\ WF_vars(DequeueBody \/ DequeueUnlock \/ DequeueAllCopy \/ DequeueAllClear
               \/ DequeueAllUnlock \/ WaitTest \/ WaitUnlock)
    /\ SF_vars(WaitReacquire)

FairSpecInput == Init /\ [][NextInput]_vars /\ FairnessInput

----------------------------------------------------------------------------
(* Properties of the input bridge.                                          *)

Tags(seq) == {seq[i].tag : i \in 1 .. Len(seq)}

\* The events the consumer's current call has removed and not yet returned.
InHand ==
    IF pc[Consumer] = "de_unlock" /\ has_event THEN <<out_event>>
    ELSE IF pc[Consumer] = "da_unlock" THEN out_events
    ELSE << >>

\* Everything handed to the consumer so far, in the order it was handed.
Returned == deqLog \o InHand

\* The calls of producer p are numbered 1, 2, ... in call order; seq lists
\* those of p in that order.
InCallOrder(seq) ==
    \A i, j \in 1 .. Len(seq) :
        (i < j /\ seq[i].tag[1] = seq[j].tag[1]) => seq[i].tag[2] < seq[j].tag[2]

(* C1: what DequeueEvent and DequeueAllEvents return, taken together, is    *)
(* exactly the sequence of events enqueued, in enqueue order (the events    *)
(* returned followed by those still queued are the events pushed, and each  *)
(* producer's events are pushed in the order of its calls); when            *)
(* DequeueAllEvents returns the queue is empty; DequeueEvent returns false  *)
(* only on an empty queue with every enqueued event already returned.       *)
C1_FifoOrder ==
    /\ Returned \o g_InputEventQueue = enqLog
    /\ InCallOrder(enqLog)
    /\ pc[Consumer] = "da_unlock" => g_InputEventQueue = << >>
    /\ (pc[Consumer] = "de_unlock" /\ ~has_event) =>
          (g_InputEventQueue = << >> /\ deqLog = enqLog)

\* Two events of one producer have been returned one at a time, and a
\* further DequeueEvent is returning false on the emptied queue.
C1_Witness ==
    /\ pc[Consumer] = "de_unlock" /\ ~has_event
    /\ Len(deqLog) = 2
    /\ deqLog[1].tag[1] = deqLog[2].tag[1]
    /\ deqLog[1].type # deqLog[2].type

(* C2: under every interleaving of the producers with the consumer, each    *)
(* event pushed is either still queued or has been returned, exactly once   *)
(* (no tag is missing, none occurs twice); the queue does not change        *)
(* between the copy and the clear of DequeueAllEvents, so a drain removes   *)
(* exactly what it returns; each producer's events are returned in the     *)
(* order of its calls.                                                      *)
C2_ExactlyOnce ==
    LET all == Returned \o g_InputEventQueue IN
    /\ Tags(all) = Tags(enqLog)
    /\ Cardinality(Tags(all)) = Len(all)
    /\ Len(all) = Len(enqLog)
    /\ pc[Consumer] = "da_clear" => out_events = g_InputEventQueue
    /\ InCallOrder(Returned)
    /\ \A t \in Threads :
          pc[t] \in {"enq_push", "enq_signal", "enq_unlock", "de_body", "de_unlock",
                     "da_copy", "da_clear", "da_unlock", "we_test", "we_unlock"}
          => g_EventQueueMutex = t

\* The consumer is in the middle of a drain of a non-empty queue while a
\* producer is blocked on the mutex with its next event.
C2_Witness ==
    /\ pc[Consumer] = "da_clear"
    /\ g_InputEventQueue # << >>
    /\ \E p \in Producers : pc[p] = "enq_lock"

\* What the queries report for the event e.
StateReflects(e) ==
    /\ (e.type = "INPUT_KEY" /\ e.sub \in {"KEY_DOWN", "KEY_UP"} /\ e.code < KEY_CODE_MAX)
          => IsKeyPressed(e.code) = {e.sub = "KEY_DOWN"}
    /\ (e.type = "INPUT_MOUSE" /\ e.sub \in {"MOUSE_DOWN", "MOUSE_UP"}
          /\ e.button > MOUSE_NONE /\ e.button < MOUSE_BUTTON_MAX)
          => IsMouseButtonPressed(e.button) = {e.sub = "MOUSE_DOWN"}
    /\ e.type = "INPUT_MOUSE" => (GetMouseX = e.x /\ GetMouseY = e.y)

(* C3: in the state in which EnqueueEvent returns for an event, the queries *)
(* report that event (pressed for a down, released for an up of a key in   *)
(* the table or of a button the query reports, the event's position for a   *)
(* mouse event), and no step of the consumer changes the persistent state.  *)
C3_StateAfterEnqueue ==
    [][ /\ \A p \in Producers :
             (pc[p] = "enq_unlock" /\ pc'[p] = "idle") => StateReflects(ev[p])'
        /\ pc'[Consumer] # pc[Consumer] => UNCHANGED stateVars ]_vars

(* C4: whenever WaitForEvent is past its loop (about to unlock and return)  *)
(* it holds the mutex and the queue is not empty, and no step of           *)
(* WaitForEvent changes the queue.                                          *)
C4_WaitReturnsNonEmpty ==
    [][ /\ pc'[Consumer] = "we_unlock" =>
             (g_EventQueueMutex' = Consumer /\ g_InputEventQueue' # << >>)
        /\ (pc[Consumer] \in {"we_test", "we_wait", "we_unlock"}
              /\ pc'[Consumer] # pc[Consumer])
             => g_InputEventQueue' = g_InputEventQueue ]_vars

\* The waiter has been woken although the queue is empty: a spurious wake.
C4_Witness ==
    /\ pc[Consumer] = "we_wait"
    /\ Consumer \notin g_QueueNonEmpty
    /\ g_InputEventQueue = << >>

(* C5: under fair scheduling, every EnqueueEvent call returns, a consumer   *)
(* blocked in WaitForEvent while a producer is inside EnqueueEvent          *)
(* eventually returns from WaitForEvent, and a blocked waiter never holds   *)
(* the mutex.                                                               *)
C5_WaiterWakes ==
    /\ \A p \in Producers : (pc[p] # "idle") ~> (pc[p] = "idle")
    /\ \A p \in Producers :
          (pc[Consumer] = "we_wait" /\ pc[p] # "idle") ~> (pc[Consumer] = "idle")
    /\ [](pc[Consumer] = "we_wait" => g_EventQueueMutex # Consumer)

\* The consumer is blocked on the condition variable and a producer is
\* about to take the mutex for its push.
C5_Witness ==
    /\ pc[Consumer] = "we_wait"
    /\ Consumer \in g_QueueNonEmpty
    /\ \E p \in Producers : pc[p] = "enq_lock"

(* C6: a thread that is about to write the persistent key, mouse-button or  *)
(* mouse-position state holds the event-queue mutex, and no two threads    *)
(* are inside UpdateInputState together.                                    *)
C6_StateWritesUnderMutex ==
    LET updating == {p \in Producers :
                       pc[p] \in {"enq_update", "enq_update_y", "enq_update_button"}} IN
    /\ \A p \in updating : g_EventQueueMutex = p
    /\ Cardinality(updating) <= 1

\* The values a caller can pass that lie outside the tables: for the key
\* code (unsigned, so never negative) the table size, the next value and a
\* very large value such as a converted negative number gives; for the
\* button the values around both ends of the enum.
BadKeyCodes == {KEY_CODE_MAX, KEY_CODE_MAX + 1, 2147483647}
BadButtons == {-1, MOUSE_NONE, MOUSE_BUTTON_MAX, MOUSE_BUTTON_MAX + 1}

(* C7: in every reachable state IsKeyPressed returns false, and only        *)
(* false, for a code >= KEY_CODE_MAX, and IsMouseButtonPressed returns      *)
(* false, and only false, for a button <= MOUSE_NONE or >= MOUSE_BUTTON_MAX.*)
C7_OutOfRangeNotPressed ==
    /\ \A code \in BadKeyCodes : IsKeyPressed(code) = {FALSE}
    /\ \A button \in BadButtons : IsMouseButtonPressed(button) = {FALSE}

\* A key-down with the code KEY_CODE_MAX and a mouse-down with the button
\* MOUSE_NONE have both been enqueued, and the button table's entry for
\* MOUSE_NONE is set.
C7_Witness ==
    /\ g_MouseButton[MOUSE_NONE]
    /\ \E i \in 1 .. Len(enqLog) :
          enqLog[i].type = "INPUT_KEY" /\ enqLog[i].code = KEY_CODE_MAX

----------------------------------------------------------------------------
(* Properties of the shader manager.                                        *)

\* The unit a getTextureUnit(name) call on shader s returns in this state.
UnitOf(s, name) ==
    getTextureUnit(textureCounters, activeTextureUnits[s], textureUnitPool[s], name)

Holds(s, u) == u \in 1 .. Len(activeTextureUnits[s]) /\ activeTextureUnits[s][u] # 0

(* C8: once a shader has a unit for a name, every step that leaves the      *)
(* shader alive leaves the name assigned, and getTextureUnit (so also       *)
(* sendTexture) for that name yields that same unit afterwards: across      *)
(* unloadVolatile, loadVolatile, failed loads and the other shaders' sends. *)
C8_UnitIsStable ==
    [][ \A s \in Shaders, n \in Names :
          (s \in live /\ s \in live' /\ n \in DOMAIN textureUnitPool[s])
          => /\ n \in DOMAIN textureUnitPool'[s]
             /\ UnitOf(s, n)' = textureUnitPool[s][n] ]_vars

\* A shader that was assigned a unit, then unloaded (its location cache is
\* empty) and loaded again, while another shader has a texture on that unit.
C8_Witness ==
    \E s \in live, n \in SamplerNames :
        /\ n \in DOMAIN textureUnitPool[s]
        /\ n \notin DOMAIN uniforms[s]
        /\ loaded[s]
        /\ \E t \in live \ {s} : Holds(t, textureUnitPool[s][n])

C10_UnloadReleasesOnce ==
    [][ /\ \A s \in Shaders :
             (UnloadVolatile(s) \/ Destroy(s))
             => /\ Len(textureCounters') = Len(textureCounters)
                /\ \A u \in 1 .. Len(textureCounters) :
                     textureCounters'[u] =
                        textureCounters[u] - (IF Holds(s, u) THEN 1 ELSE 0)
                /\ \A u \in 1 .. Len(activeTextureUnits'[s]) : ~Holds(s, u)'
        /\ \A u \in 1 .. Len(textureCounters') : textureCounters'[u] >= 0
        /\ \A s \in Shaders, u \in 1 .. maxTextureUnits :
             (~Holds(s, u) /\ Holds(s, u)')
             => \E n \in Names, t \in Textures : SendTexture(s, n, t) ]_vars

\* A shader that was given unit 1 has been unloaded and the counter of
\* unit 1 is back to zero, while the other shader's unit 2 still counts.
C10_Witness ==
    \E s \in live : \E t \in live \ {s} :
        /\ ~loaded[s]
        /\ "a" \in DOMAIN textureUnitPool[s]
        /\ textureUnitPool[s]["a"] = 1
        /\ textureCounters = <<0, 1>>
        /\ Holds(t, 2)

(* C11: the usage counter of every unit equals the number of live shaders   *)
(* whose list has a texture on that unit; so every counter is zero when no  *)
(* live shader has a texture bound (all unloaded or destroyed).  Stated for *)
(* runs in which only non-zero textures are sent.                           *)
C11_CounterCountsHolders ==
    \A u \in 1 .. Len(textureCounters) :
        textureCounters[u] = Cardinality({s \in live : Holds(s, u)})

\* The units with no global user, and the units shader s has no texture on.
UnusedUnits == {u \in 1 .. maxTextureUnits : textureCounters[u] = 0}
OwnFreeUnits(s) == {u \in 1 .. maxTextureUnits : activeTextureUnits[s][u] = 0}

(* C12: a step that gives a unit to a name the shader had none for gives    *)
(* the lowest unit with a zero usage counter if there is one, otherwise the *)
(* lowest unit the shader's own list has no texture on; the unit lies in    *)
(* 1 .. maxTextureUnits (never unit 0).  When neither kind of unit exists   *)
(* getTextureUnit throws, and no step gives the name a unit.                *)
C12_LowestFreeUnit ==
    [][ \A s \in Shaders, n \in Names :
          (s \in live /\ n \notin DOMAIN textureUnitPool[s])
          => /\ n \in DOMAIN textureUnitPool'[s]
                => LET unit == textureUnitPool'[s][n] IN
                   /\ unit \in 1 .. maxTextureUnits
                   /\ IF UnusedUnits # {}
                      THEN unit \in UnusedUnits /\ \A v \in UnusedUnits : unit <= v
                      ELSE unit \in OwnFreeUnits(s)
                           /\ \A v \in OwnFreeUnits(s) : unit <= v
             /\ (UnusedUnits = {} /\ OwnFreeUnits(s) = {} /\ s \in live')
                => /\ UnitOf(s, n) = 0
                   /\ textureUnitPool'[s] = textureUnitPool[s]
                   /\ (\E t \in Textures : SendTexture(s, n, t))
                        => /\ textureCounters' = textureCounters
                           /\ activeTextureUnits' = activeTextureUnits ]_vars

\* A loaded shader has a texture on every unit, every unit has a user, and
\* a sampler of the shader has no unit yet: its next sendTexture fails.  The
\* other shader got its unit from its own list, every counter being used.
C12_Witness ==
    \E s \in live : \E t \in live \ {s} :
        /\ loaded[s]
        /\ maxTextureUnits >= 1
        /\ UnusedUnits = {} /\ OwnFreeUnits(s) = {}
        /\ "b" \notin DOMAIN textureUnitPool[s]
        /\ "b" \in DOMAIN uniforms[s]
        /\ DOMAIN textureUnitPool[t] # {}
        /\ Holds(t, 1)

\* A send of any kind by shader s.
Send(s) ==
    \/ \E n \in {"a", "u"}, size \in {0, 1} : SendFloat(s, n, size)
    \/ \E n \in {"a", "u"}, size \in {1, 2} : SendMatrix(s, n, size)
    \/ \E n \in {"a", "u"} : SendTexture(s, n, 7)

\* currentShader and defaultShader refer to existing shaders, or to none.
NoDanglingShader ==
    /\ currentShader \in live \cup {NULL}
    /\ defaultShader \in live \cup {NULL}

\* C13, as stated: a send leaves the current-shader reference as it was,
\* whatever it was and whether or not there is a default shader.
C13_CurrentShaderRestored ==
    [][ \A s \in Shaders :
          (Send(s) /\ NoDanglingShader) => currentShader' = currentShader ]_vars

(* C13, as amended: a send leaves the current-shader reference as it was    *)
(* when a shader was current; when none was current, the default shader is  *)
(* current afterwards if there is one, and none otherwise.  Whether the     *)
(* call returns or throws makes no difference.                              *)
C13_CurrentShaderRestoredOrDefault ==
    [][ \A s \in Shaders :
          (Send(s) /\ NoDanglingShader)
          => currentShader' = IF currentShader # NULL THEN currentShader
                              ELSE defaultShader ]_vars

\* A sendFloat has just thrown for its size while another shader is
\* current and a third party, the default shader, exists.
C13_Witness ==
    /\ ret.op = "sendFloat" /\ ret.error = "size"
    /\ currentShader \in live
    /\ defaultShader \in live
    /\ currentShader # defaultShader

(* C14: when the driver compiles and links, constructing a shader succeeds  *)
(* exactly when its map of sources is not empty and every stage the map     *)
(* lacks has a registered default; setDefaultSources takes a map with both  *)
(* stages and leaves the registered defaults alone for any other map.       *)
C14_ConstructionCompleteness ==
    [][ /\ \A s \in Shaders : \A src \in SUBSET Stages :
              (s \notin live /\ Construct(s, src, "ok"))
              => (s \in live'
                    <=> /\ src # {}
                        /\ \A st \in Stages \ src : st \in defaultSources)
        /\ \A src \in SUBSET Stages :
              SetDefaultSources(src)
              => defaultSources' = IF src = Stages THEN src
                                   ELSE defaultSources ]_vars

\* A shader built from a vertex stage alone exists: the pixel stage came
\* from the registered defaults.
C14_Witness ==
    \E s \in live :
        /\ givenSources[s] = {"TYPE_VERTEX"}
        /\ "TYPE_PIXEL" \in defaultSources
        /\ loaded[s]

\* The lookup of name n by shader s yields a location: the cache of s has
\* one, or the driver knows n in the program s refers to.
Resolvable(s, n) ==
    \/ n \in DOMAIN uniforms[s] /\ uniforms[s][n] # -1
    \/ DriverLocation(s, n) # -1

\* The driver calls by size.
FloatCalls == <<"glUniform1fv", "glUniform2fv", "glUniform3fv", "glUniform4fv">>
MatrixCalls == <<"none", "glUniformMatrix2fv", "glUniformMatrix3fv",
                 "glUniformMatrix4fv">>

\* What the claim asks of a send whose valid sizes are lo .. 4: the size
\* error and no driver call outside them, the call of that size inside them.
SizeChecked(size, lo, calls) ==
    IF size \in lo .. 4
    THEN ret'.error = "none" /\ ret'.glcall = calls[size]
    ELSE ret'.error = "size" /\ ret'.glcall = "none"

\* The step is a sendFloat, or a sendMatrix, of shader s with these
\* arguments.
FloatSent(s, n, size) == ret'.op = "sendFloat" /\ SendFloat(s, n, size)
MatrixSent(s, n, size) == ret'.op = "sendMatrix" /\ SendMatrix(s, n, size)

\* C15, as stated: sendFloat fails with the invalid-size error for every
\* size outside 1..4 and sendMatrix for every size outside 2..4, with no
\* driver call; valid sizes on a resolvable uniform issue the call of that
\* size.
C15_InvalidSizeRejected ==
    [][ \A s \in Shaders : \A n \in UniformNames : \A size \in Sizes :
          /\ FloatSent(s, n, size)
               => (size \in 1 .. 4 /\ ~Resolvable(s, n))
                  \/ SizeChecked(size, 1, FloatCalls)
          /\ MatrixSent(s, n, size)
               => (size \in 2 .. 4 /\ ~Resolvable(s, n))
                  \/ SizeChecked(size, 2, MatrixCalls) ]_vars

(* C15, as amended: on a resolvable uniform sendFloat fails with the        *)
(* invalid-size error for every size outside 1..4 and sendMatrix for every  *)
(* size outside 2..4, with no driver call, and the valid sizes issue the    *)
(* driver call of that size.                                                *)
C15_InvalidSizeRejectedWhenResolvable ==
    [][ \A s \in Shaders : \A n \in UniformNames : \A size \in Sizes :
          /\ (Resolvable(s, n) /\ FloatSent(s, n, size))
               => SizeChecked(size, 1, FloatCalls)
          /\ (Resolvable(s, n) /\ MatrixSent(s, n, size))
               => SizeChecked(size, 2, MatrixCalls) ]_vars

\* A sendMatrix has just thrown for its size after its lookup resolved the
\* uniform, which is in the cache of the only shader there is.
C15_Witness ==
    /\ ret.op = "sendMatrix" /\ ret.error = "size" /\ ret.glcall = "none"
    /\ \E s \in Shaders :
          /\ live = {s}
          /\ \E n \in DOMAIN uniforms[s] : uniforms[s][n] >= 0

(* C16: the usage counter of a unit goes up only in a step in which a       *)
(* shader's record for that unit goes from empty to non-empty; a send of    *)
(* texture 0, which leaves the record empty, is not counted.                *)
C16_CountedWithRecord ==
    [][ \A u \in 1 .. Len(textureCounters) :
          textureCounters'[u] > textureCounters[u]
          => \E s \in live : /\ activeTextureUnits[s][u] = 0
                             /\ activeTextureUnits'[s][u] # 0 ]_vars

(* C17: whenever a shader is asked, a lookup that is not unsafe yields no   *)
(* -1 and throws exactly when the driver does not know the name in the      *)
(* shader's program, an unsafe lookup does not throw, and hasUniform is     *)
(* true exactly when the driver knows the name.                             *)
C17_LookupAgreesWithDriver ==
    \A s \in live : \A n \in Names :
        LET safe == getUniformLocation(s, n, FALSE)
            unsafe == getUniformLocation(s, n, TRUE)
        IN
        /\ ~safe.throws => safe.location # -1
        /\ safe.throws <=> DriverLocation(s, n) = -1
        /\ ~unsafe.throws
        /\ hasUniform(s, n).value <=> DriverLocation(s, n) # -1

(* C18: between operations no compiled stage object is left that was not    *)
(* flagged for deletion: every construction and every loadVolatile has      *)
(* released the stage objects it compiled, however it ended.                *)
C18_StageObjectsReleased == stageObjects = 0

(* C19: a program handle held by a shader names a program that exists and   *)
(* that no other shader holds: after a failed link the shader holds none,   *)
(* so no handle is used or deleted once it has been deleted.                *)
C19_HeldProgramsExist ==
    \A s \in live :
        program[s] # 0
        => /\ program[s] \in glPrograms
           /\ \A t \in live \ {s} : program[t] # program[s]

(* C20: within a shader two different uniform names never have the same     *)
(* texture unit: the name-to-unit mapping of every live shader is           *)
(* injective.                                                               *)
C20_PoolInjective ==
    \A s \in live :
        \A n \in DOMAIN textureUnitPool[s] : \A m \in DOMAIN textureUnitPool[s] :
            n # m => textureUnitPool[s][n] # textureUnitPool[s][m]

(* C21: the current-shader reference is none or a live shader after every   *)
(* step, a destructor included, that starts where the current-shader and    *)
(* the default-shader references are each none or a live shader.            *)
C21_CurrentShaderStaysLive ==
    [][ NoDanglingShader => currentShader' \in live' \cup {NULL} ]_vars

\* The persistent state that results from applying the events of log, in
\* order, to the state st.
RECURSIVE Replay(_, _)
Replay(log, st) ==
    IF log = << >> THEN st
    ELSE LET e == Head(log) IN
         Replay(Tail(log),
                [keys    |-> UpdateKeys(st.keys, e),
                 buttons |-> UpdateMouseButton(st.buttons, e),
                 x       |-> IF e.type = "INPUT_MOUSE" THEN e.x ELSE st.x,
                 y       |-> IF e.type = "INPUT_MOUSE" THEN e.y ELSE st.y])

\* The persistent state before any event.
InitialInputState ==
    [keys    |-> [k \in 0 .. KEY_CODE_MAX - 1 |-> FALSE],
     buttons |-> [b \in 0 .. MOUSE_BUTTON_MAX - 1 |-> FALSE],
     x       |-> 0,
     y       |-> 0]

(* C22: whenever no producer is inside EnqueueEvent, the key table, the     *)
(* mouse-button table and the mouse position are what applying every       *)
(* event pushed so far, in the order of the pushes, gives.                  *)
C22_StateAgreesWithQueueOrder ==
    (\A p \in Producers : pc[p] = "idle")
    => [keys |-> g_Keys, buttons |-> g_MouseButton, x |-> g_MouseX, y |-> g_MouseY]
         = Replay(enqLog, InitialInputState)

=============================================================================
